---- MODULE Spec2Model ----
(***************************************************************************)
(* Model of the wavefront .obj loader of rust-ecs (src/graphics/obj.rs),   *)
(* the Mesh and Texture GPU resources it creates (mesh.rs, texture.rs) and *)
(* the process-wide OpenGL binding state those resources mutate.           *)
(***************************************************************************)
EXTENDS Integers, Sequences, FiniteSets, TLC

VARIABLES
    pc,                          \* position of the load call
    err,                         \* the panic that ended the load, or NoError
    debug_assertions,            \* the build: are debug_assert!s compiled in
    lineno,                      \* load: the number of lines read
    line,                        \* load: the line read last
    positions,                   \* load: Vec<Point3<f32>>
    normals,                     \* load: Vec<Vector3<f32>>
    tex_coords,                  \* load: Vec<Vector2<f32>>
    faces,                       \* load: Vec<Face>
    materials,                   \* load: Vec<Material>
    material_indices_by_name,    \* load: HashMap<String, u32>
    material_names,              \* load: the name each material was inserted under
    active_mat_index,            \* load: Option<u32>
    fi,                          \* reindex_faces: the face the outer loop is at
    ci,                          \* reindex_faces: the corner the inner loop is at
    face_normal,                 \* reindex_faces: the flat normal of face fi
    final_index_by_face_index,   \* reindex_faces: HashMap<FaceIndex, u32>
    final_vertices,              \* reindex_faces: Vec<Vertex>
    final_indices,               \* reindex_faces: Vec<u32>
    mesh,                        \* the Mesh load returned, or NoMesh
    gl                           \* the OpenGL context: objects and bindings

vars == <<pc, err, debug_assertions, lineno, line, positions, normals,
          tex_coords, faces, materials, material_indices_by_name,
          material_names, active_mat_index,
          fi, ci, face_normal, final_index_by_face_index, final_vertices,
          final_indices, mesh, gl>>

parseVars == <<lineno, line, positions, normals, tex_coords, faces,
               materials, material_indices_by_name, material_names,
               active_mat_index>>

reindexVars == <<fi, ci, face_normal, final_index_by_face_index,
                 final_vertices, final_indices>>

(***************************************************************************)
(* Bounds.                                                                 *)
(***************************************************************************)
MaxFaces == 2       \* faces handed to reindex_faces on its own
MaxLines == 3       \* lines of a model file

(***************************************************************************)
(* Values.                                                                 *)
(***************************************************************************)
\* Option<T>
None == <<>>
Some(x) == <<x>>
IsSome(o) == Len(o) = 1
Unwrap(o) == o[1]

\* The f32 NaN, which normalize() yields for a zero-length vector.  Every
\* other float of the model is a small integer.
NaN == 9999

NoError == "none"
NoLine == [token |-> "", args |-> <<>>]
NoMesh == [vertices |-> <<>>, indices |-> <<>>, materials |-> <<>>,
           vao |-> 0, vbo |-> 0, ebo |-> 0]


\* Point3 - Point3, Vector3::cross, InnerSpace::normalize (cgmath)
Sub(a, b) == <<a[1] - b[1], a[2] - b[2], a[3] - b[3]>>
Cross(a, b) == <<a[2] * b[3] - a[3] * b[2],
                 a[3] * b[1] - a[1] * b[3],
                 a[1] * b[2] - a[2] * b[1]>>
Abs(x) == IF x < 0 THEN -x ELSE x
\* The length of v.  The points of the model have integer coordinates in
\* the plane z = 0, so every cross product is (0, 0, k) and its length is an
\* integer.
Magnitude(v) ==
    CHOOSE r \in 0..(Abs(v[1]) + Abs(v[2]) + Abs(v[3])) :
        r * r = v[1] * v[1] + v[2] * v[2] + v[3] * v[3]
\* v / |v|; 0.0 / 0.0 is NaN.
Normalize(v) ==
    LET m == Magnitude(v)
    IN  IF m = 0 THEN <<NaN, NaN, NaN>>
        ELSE <<v[1] \div m, v[2] \div m, v[3] \div m>>

\* vec[i as usize - 1] does not panic.  At i = 0 the subtraction overflows:
\* a panic with overflow checks, usize::MAX without, which is beyond the
\* length of any Vec.
InBounds(vec, i) == i - 1 >= 0 /\ i - 1 < Len(vec)
\* vec[i as usize - 1]; sequences of the model start at 1.
At(vec, i) == vec[(i - 1) + 1]

(***************************************************************************)
(* FaceIndex, Face.                                                        *)
(***************************************************************************)
FaceIndex(p, tx, n) == [p_index |-> p, tx_index |-> tx, n_index |-> n]

\* A hash and equality over the position index alone.
FaceIndexKeyPositionOnly(index) == <<index.p_index, None, None>>

\* #[derive(Eq, Hash, PartialEq)]: the HashMap key is all three fields.
FaceIndexKey(index) == <<index.p_index, index.tx_index, index.n_index>>

\* Face::normal does not panic.
FaceNormalInBounds(face, pos) ==
    \A c \in 1..3 : InBounds(pos, face.indices[c].p_index)

\* The cross product of the two edges taken in the other order.
FaceNormalSwapped(face, pos) ==
    LET p0 == At(pos, face.indices[1].p_index)
        e1 == Sub(At(pos, face.indices[2].p_index), p0)
        e2 == Sub(At(pos, face.indices[3].p_index), p0)
    IN  Normalize(Cross(e2, e1))

\* Face::normal
FaceNormal(face, pos) ==
    LET p0 == At(pos, face.indices[1].p_index)
        e1 == Sub(At(pos, face.indices[2].p_index), p0)
        e2 == Sub(At(pos, face.indices[3].p_index), p0)
    IN  Normalize(Cross(e1, e2))

(***************************************************************************)
(* reindex_faces.                                                          *)
(***************************************************************************)
\* The lookups of a corner that is not in the map yet do not panic.
VertexInBounds(index) ==
    /\ InBounds(positions, index.p_index)
    /\ IsSome(index.tx_index) => InBounds(tex_coords, Unwrap(index.tx_index))
    /\ IsSome(index.n_index) => InBounds(normals, Unwrap(index.n_index))

\* The Vertex of a corner that is not in the map yet.
NewVertex(index, fnormal) ==
    [position   |-> At(positions, index.p_index),
     normal     |-> IF IsSome(index.n_index)
                    THEN At(normals, Unwrap(index.n_index))
                    ELSE fnormal,
     tex_coords |-> IF IsSome(index.tx_index)
                    THEN At(tex_coords, Unwrap(index.tx_index))
                    ELSE <<0, 0>>]

\* The index pushed for a corner that is in the map.
SeenIndex(map, index) == map[FaceIndexKey(index)]

\* The new index taken after the push of the vertex.
NewIndexAfterPush(vertices) == Len(vertices) + 1

\* The index given to a corner that is not in the map yet.
NewIndex(vertices) == Len(vertices)

Fail(e) ==
    /\ pc' = "failed"
    /\ err' = e

\* for face in faces: face.normal(&positions)
FaceBegin ==
    /\ pc = "reindex"
    /\ fi <= Len(faces)
    /\ FaceNormalInBounds(faces[fi], positions)
    /\ face_normal' = FaceNormal(faces[fi], positions)
    /\ ci' = 1
    /\ pc' = "corner"
    /\ UNCHANGED <<err, debug_assertions, parseVars, fi,
                   final_index_by_face_index, final_vertices, final_indices,
                   mesh, gl>>

\* face.normal(&positions) indexes positions out of bounds
FaceBeginOutOfBounds ==
    /\ pc = "reindex"
    /\ fi <= Len(faces)
    /\ ~FaceNormalInBounds(faces[fi], positions)
    /\ Fail("ArrayIndexError")
    /\ UNCHANGED <<debug_assertions, parseVars, reindexVars, mesh, gl>>

\* The end of one pass of `for index in face.indices`.
NextCorner ==
    IF ci < 3
    THEN /\ ci' = ci + 1
         /\ UNCHANGED <<pc, fi>>
    ELSE /\ ci' = 0
         /\ fi' = fi + 1
         /\ pc' = "reindex"

\* A corner that is in the map and pushes nothing.
CornerSeenWithoutPush ==
    /\ pc = "corner"
    /\ FaceIndexKey(faces[fi].indices[ci]) \in DOMAIN final_index_by_face_index
    /\ NextCorner
    /\ UNCHANGED <<err, debug_assertions, parseVars, face_normal,
                   final_index_by_face_index, final_vertices, final_indices,
                   mesh, gl>>

\* Some(&i) => final_indices.push(i)
CornerSeen ==
    /\ pc = "corner"
    /\ LET index == faces[fi].indices[ci]
       IN  /\ FaceIndexKey(index) \in DOMAIN final_index_by_face_index
           /\ final_indices' =
                  Append(final_indices, SeenIndex(final_index_by_face_index, index))
    /\ NextCorner
    /\ UNCHANGED <<err, debug_assertions, parseVars, face_normal,
                   final_index_by_face_index, final_vertices, mesh, gl>>

\* None => a new vertex, at the end of final_vertices
CornerNew ==
    /\ pc = "corner"
    /\ LET index == faces[fi].indices[ci]
           new_index == NewIndex(final_vertices)
       IN  /\ FaceIndexKey(index) \notin DOMAIN final_index_by_face_index
           /\ VertexInBounds(index)
           /\ final_indices' = Append(final_indices, new_index)
           /\ final_index_by_face_index' =
                  [k \in DOMAIN final_index_by_face_index \cup {FaceIndexKey(index)} |->
                      IF k = FaceIndexKey(index) THEN new_index
                      ELSE final_index_by_face_index[k]]
           /\ final_vertices' = Append(final_vertices, NewVertex(index, face_normal))
    /\ NextCorner
    /\ UNCHANGED <<err, debug_assertions, parseVars, face_normal, mesh, gl>>

\* None => a lookup of the new vertex indexes out of bounds
CornerOutOfBounds ==
    /\ pc = "corner"
    /\ LET index == faces[fi].indices[ci]
       IN  /\ FaceIndexKey(index) \notin DOMAIN final_index_by_face_index
           /\ ~VertexInBounds(index)
    /\ Fail("ArrayIndexError")
    /\ UNCHANGED <<debug_assertions, parseVars, reindexVars, mesh, gl>>

(***************************************************************************)
(* The OpenGL context, Mesh::new.                                          *)
(***************************************************************************)
NoGl == [textures |-> 0, vertex_arrays |-> 0, buffers |-> 0,
         bound_vertex_array |-> 0, bound_array_buffer |-> 0,
         bound_texture_2d |-> 0]

\* Mesh::new up to the first upload: glGenVertexArrays, glGenBuffers twice,
\* glBindVertexArray(vao), glBindBuffer(GL_ARRAY_BUFFER, vbo)
MeshNewBind(g) ==
    [g EXCEPT !.vertex_arrays = @ + 1,
              !.buffers = @ + 2,
              !.bound_vertex_array = g.vertex_arrays + 1,
              !.bound_array_buffer = g.buffers + 1]

\* Mesh::new from there: glBindVertexArray(0)
MeshNewUnbind(g) == [g EXCEPT !.bound_vertex_array = 0]

\* A first element taken without a bounds check (Vec::as_ptr).
FirstElementUnchecked(vec) == TRUE

\* &vec[0] does not panic.
FirstElement(vec) == Len(vec) > 0

\* Mesh::new(final_vertices, final_indices, materials)
MeshNew ==
    /\ pc = "reindex"
    /\ fi > Len(faces)
    /\ FirstElement(final_vertices)
    /\ FirstElement(final_indices)
    /\ gl' = MeshNewUnbind(MeshNewBind(gl))
    /\ mesh' = [vertices  |-> final_vertices,
                indices   |-> final_indices,
                materials |-> materials,
                vao |-> gl.vertex_arrays + 1,
                vbo |-> gl.buffers + 1,
                ebo |-> gl.buffers + 2]
    /\ pc' = "done"
    /\ UNCHANGED <<err, debug_assertions, parseVars, reindexVars>>

\* Mesh::new: &vertices[0] or &indices[0] of an empty Vec panics, after the
\* vertex array and the vertex buffer were bound.
MeshNewEmpty ==
    /\ pc = "reindex"
    /\ fi > Len(faces)
    /\ ~(FirstElement(final_vertices) /\ FirstElement(final_indices))
    /\ gl' = MeshNewBind(gl)
    /\ Fail("ArrayIndexError")
    /\ UNCHANGED <<debug_assertions, parseVars, reindexVars, mesh>>

(***************************************************************************)
(* Words of a line and their parsing.  A word is a sequence of characters. *)
(***************************************************************************)
Digits == <<"0", "1", "2", "3", "4", "5", "6", "7", "8", "9">>
IsDigit(c) == \E i \in 1..10 : Digits[i] = c
DigitVal(c) == (CHOOSE i \in 1..10 : Digits[i] = c) - 1

RECURSIVE Decimal(_)
Decimal(w) ==
    IF w = <<>> THEN 0
    ELSE 10 * Decimal(SubSeq(w, 1, Len(w) - 1)) + DigitVal(w[Len(w)])

AllDigits(w) == w # <<>> /\ \A i \in 1..Len(w) : IsDigit(w[i])

\* str::parse::<u32>().ok()  (the words of the model are far below 2^32)
ParseU32(w) == IF AllDigits(w) THEN Some(Decimal(w)) ELSE None

\* str::parse::<f32>().ok(), for the floats without fraction or exponent
ParseF32(w) ==
    IF AllDigits(w) THEN Some(Decimal(w))
    ELSE IF w # <<>> /\ w[1] = "-" /\ AllDigits(Tail(w)) THEN Some(-Decimal(Tail(w)))
    ELSE None

\* str::split(sep), collected
RECURSIVE Split(_, _)
Split(w, sep) ==
    IF \E i \in 1..Len(w) : w[i] = sep
    THEN LET i == CHOOSE i \in 1..Len(w) : w[i] = sep /\ \A j \in 1..(i - 1) : w[j] # sep
         IN  <<SubSeq(w, 1, i - 1)>> \o Split(SubSeq(w, i + 1, Len(w)), sep)
    ELSE <<w>>

\* The result of a parser that may panic.
Ok(v) == [err |-> NoError, val |-> v]
Panic(e) == [err |-> e, val |-> <<>>]

\* words.next(), the k-th time
NextWord(args, k) == IF k <= Len(args) THEN Some(args[k]) ELSE None

\* parse_vertex_position, parse_vertex_normal
parse_vector3(args) ==
    LET v1 == NextWord(args, 1)
        v2 == NextWord(args, 2)
        v3 == NextWord(args, 3)
    IN  IF IsSome(v1) /\ IsSome(v2) /\ IsSome(v3)
        THEN LET x == ParseF32(Unwrap(v1))
                 y == ParseF32(Unwrap(v2))
                 z == ParseF32(Unwrap(v3))
             IN  IF IsSome(x) /\ IsSome(y) /\ IsSome(z)
                 THEN Ok(<<Unwrap(x), Unwrap(y), Unwrap(z)>>)
                 ELSE Panic("MalformedNumber")
        ELSE Panic("MissingField")

\* parse_tex_coords
parse_tex_coords(args) ==
    LET tx1 == NextWord(args, 1)
        tx2 == NextWord(args, 2)
    IN  IF IsSome(tx1) /\ IsSome(tx2)
        THEN LET s == ParseF32(Unwrap(tx1))
                 t == ParseF32(Unwrap(tx2))
             IN  IF IsSome(s) /\ IsSome(t)
                 THEN Ok(<<Unwrap(s), Unwrap(t)>>)
                 ELSE Panic("MalformedNumber")
        ELSE Panic("MissingField")

\* parse_face_index: the position index must parse; a texture or normal
\* field that is missing, empty or does not parse is None.
parse_face_index(vertex) ==
    LET indices == Split(vertex, "/")
        p_index == ParseU32(indices[1])
        tx_index == IF Len(indices) >= 2
                    THEN IF indices[2] = <<>> THEN None ELSE ParseU32(indices[2])
                    ELSE None
        n_index == IF Len(indices) >= 3 THEN ParseU32(indices[3]) ELSE None
    IN  IF IsSome(p_index)
        THEN Ok(FaceIndex(Unwrap(p_index), tx_index, n_index))
        ELSE Panic("MalformedNumber")

\* parse_face
parse_face(args, mat_index) ==
    LET f1 == NextWord(args, 1)
        f2 == NextWord(args, 2)
        f3 == NextWord(args, 3)
    IN  IF IsSome(f1) /\ IsSome(f2) /\ IsSome(f3)
        THEN LET i1 == parse_face_index(Unwrap(f1))
                 i2 == parse_face_index(Unwrap(f2))
                 i3 == parse_face_index(Unwrap(f3))
             IN  IF i1.err # NoError THEN Panic(i1.err)
                 ELSE IF i2.err # NoError THEN Panic(i2.err)
                 ELSE IF i3.err # NoError THEN Panic(i3.err)
                 ELSE Ok([indices |-> <<i1.val, i2.val, i3.val>>,
                          mat_index |-> mat_index])
        ELSE Panic("UnsupportedTopology")

\* debug_assert!(words.next().is_none()) after the three words of a face
OnlyTriangulated(args, debug) == debug => Len(args) <= 3

(***************************************************************************)
(* Texture::new, read_material.                                            *)
(***************************************************************************)
\* Texture::new: glGenTextures, glBindTexture(GL_TEXTURE_2D, texture_id) and
\* the upload; the texture stays bound.
TextureNew(g) ==
    [g EXCEPT !.textures = @ + 1, !.bound_texture_2d = g.textures + 1]

\* The id of the Texture that TextureNew(g) returns.
TextureId(g) == g.textures + 1

\* The files under data/materials and data/textures.
Directive(token, args) == [token |-> token, args |-> args]
MaterialFiles == {"plain.mtl", "wood.mtl", "broken.mtl"}
MaterialFile(filename) ==
    CASE filename = "plain.mtl" ->
            <<Directive("newmtl", <<"plain">>), Directive("Kd", <<>>)>>
      [] filename = "wood.mtl" ->
            <<Directive("newmtl", <<"wood">>), Directive("map_Kd", <<"wood.png">>)>>
      [] filename = "broken.mtl" ->
            <<Directive("newmtl", <<"broken">>), Directive("zz", <<>>)>>
TextureFiles == {"wood.png"}

MtlIgnored == {"#", "", "newmtl", "Ka", "Kd", "Ks", "Ns", "map_Ka", "map_Ks", "map_Ns"}

\* read_material from line k of the file on, with the diffuse texture and
\* the OpenGL context so far.
RECURSIVE read_material_from(_, _, _, _)
read_material_from(lines, k, diffuse_texture, g) ==
    IF k > Len(lines)
    THEN [err |-> NoError, val |-> [diffuse_texture |-> diffuse_texture], gl |-> g]
    ELSE LET d == lines[k]
         IN  IF d.token \in MtlIgnored
             THEN read_material_from(lines, k + 1, diffuse_texture, g)
             ELSE IF d.token = "map_Kd"
             THEN IF d.args = <<>>
                  THEN [err |-> "MissingField", val |-> <<>>, gl |-> g]
                  ELSE IF d.args[1] \notin TextureFiles
                  THEN [err |-> "DecodeError", val |-> <<>>, gl |-> g]
                  ELSE read_material_from(lines, k + 1, Some(TextureId(g)),
                                          TextureNew(g))
             ELSE [err |-> "UnknownToken", val |-> <<>>, gl |-> g]

\* read_material
read_material(filename, g) ==
    IF filename \notin MaterialFiles
    THEN [err |-> "IOError", val |-> <<>>, gl |-> g]
    ELSE read_material_from(MaterialFile(filename), 1, None, g)

(***************************************************************************)
(* load: one action for each arm of the match on the first word of a line. *)
(***************************************************************************)
Line(token, args) == [token |-> token, args |-> args]

ObjTokens == {"v", "vt", "vn", "f", "g", "s", "o", "usemtl", "mtllib"}

\* A match whose last arm ignores the words it does not know.
MatchArmLenient(token) ==
    IF token \in ObjTokens THEN token ELSE "comment"

\* The arm of `match words.next()` that takes a first word; "" is a line
\* without words.
MatchArm(token) ==
    IF token \in {"#", ""} THEN "comment"
    ELSE IF token \in ObjTokens THEN token
    ELSE "invalid"

\* format!("material{}", n)
MaterialName(n) ==
    <<"material0", "material1", "material2", "material3", "material4",
      "material5", "material6", "material7">>[n + 1]

\* An insert that keeps the entry of a key that is present.
InsertIfAbsent(map, k, v) ==
    [x \in DOMAIN map \cup {k} |-> IF x \in DOMAIN map THEN map[x] ELSE v]

\* HashMap::insert
Insert(map, k, v) ==
    [x \in DOMAIN map \cup {k} |-> IF x = k THEN v ELSE map[x]]

\* The lines a model file of the model is made of.
W0 == <<"0">>
W1 == <<"1">>
WX == <<"x">>
VArgs == {<<W0, W0, W0>>, <<W1, W0, W0>>, <<W1, WX, W0>>, <<W1, W0>>}
VtArgs == {<<W1, W1>>, <<W1, WX>>, <<W1>>}
VnArgs == {<<W0, W0, W1>>, <<WX, W0, W1>>}
FaceWords == {<<"1">>,
              <<"1", "/", "1">>,
              <<"1", "/", "1", "/", "1">>,
              <<"1", "/", "/", "1">>,
              <<"1", "/", "x", "/", "1">>,
              <<"1", "/", "1", "/", "x">>,
              <<"x">>}
FArgs == {<<a, <<"1">>, <<"2">>>> : a \in FaceWords}
         \cup {<<<<"1">>, a, <<"2">>>> : a \in FaceWords}
         \cup {<<<<"2">>, <<"1">>, a>> : a \in FaceWords}
         \cup {<<<<"1">>, <<"1">>, <<"1">>>>,
               <<<<"1">>, <<"2">>>>,
               <<<<"1">>, <<"1">>, <<"1">>, <<"1">>>>}
IgnoredTokens == {"#", "", "g", "s", "o"}
InvalidTokens == {"zz"}
UsemtlArgs == {<<>>, <<"a">>, <<"material0">>, <<"material1">>}
MtllibArgs == {<<>>}
              \cup {<<f>> : f \in MaterialFiles}
              \cup {<<f, n>> : f \in MaterialFiles, n \in {"a", "material1"}}

\* reader.lines() yields a line with this first word and these words after it
Read(token, args) ==
    /\ pc = "parse"
    /\ lineno < MaxLines
    /\ lineno' = lineno + 1
    /\ line' = Line(token, args)

\* Some("v")
ReadV ==
    \E args \in VArgs :
        /\ MatchArm("v") = "v"
        /\ Read("v", args)
        /\ LET r == parse_vector3(args)
           IN  IF r.err = NoError
               THEN positions' = Append(positions, r.val) /\ UNCHANGED <<pc, err>>
               ELSE Fail(r.err) /\ UNCHANGED positions
        /\ UNCHANGED <<debug_assertions, normals, tex_coords, faces, materials,
                       material_indices_by_name, material_names,
                       active_mat_index, reindexVars, mesh, gl>>

\* Some("vt")
ReadVt ==
    \E args \in VtArgs :
        /\ MatchArm("vt") = "vt"
        /\ Read("vt", args)
        /\ LET r == parse_tex_coords(args)
           IN  IF r.err = NoError
               THEN tex_coords' = Append(tex_coords, r.val) /\ UNCHANGED <<pc, err>>
               ELSE Fail(r.err) /\ UNCHANGED tex_coords
        /\ UNCHANGED <<debug_assertions, positions, normals, faces, materials,
                       material_indices_by_name, material_names,
                       active_mat_index, reindexVars, mesh, gl>>

\* Some("vn")
ReadVn ==
    \E args \in VnArgs :
        /\ MatchArm("vn") = "vn"
        /\ Read("vn", args)
        /\ LET r == parse_vector3(args)
           IN  IF r.err = NoError
               THEN normals' = Append(normals, r.val) /\ UNCHANGED <<pc, err>>
               ELSE Fail(r.err) /\ UNCHANGED normals
        /\ UNCHANGED <<debug_assertions, positions, tex_coords, faces, materials,
                       material_indices_by_name, material_names,
                       active_mat_index, reindexVars, mesh, gl>>

\* Some("f")
ReadF ==
    \E args \in FArgs :
        /\ MatchArm("f") = "f"
        /\ Read("f", args)
        /\ IF ~OnlyTriangulated(args, debug_assertions)
           THEN Fail("UnsupportedTopology") /\ UNCHANGED faces
           ELSE LET r == parse_face(args, active_mat_index)
                IN  IF r.err = NoError
                    THEN faces' = Append(faces, r.val) /\ UNCHANGED <<pc, err>>
                    ELSE Fail(r.err) /\ UNCHANGED faces
        /\ UNCHANGED <<debug_assertions, positions, normals, tex_coords, materials,
                       material_indices_by_name, material_names,
                       active_mat_index, reindexVars, mesh, gl>>

\* Some("#") | None, Some("g"), Some("s"), Some("o")
ReadIgnored ==
    \E token \in IgnoredTokens \cup InvalidTokens :
        /\ MatchArm(token) \in {"comment", "g", "s", "o"}
        /\ Read(token, <<>>)
        /\ UNCHANGED <<pc, err, debug_assertions, positions, normals, tex_coords,
                       faces, materials, material_indices_by_name,
                       material_names, active_mat_index, reindexVars, mesh, gl>>

\* Some("usemtl")
ReadUsemtl ==
    \E args \in UsemtlArgs :
        /\ MatchArm("usemtl") = "usemtl"
        /\ Read("usemtl", args)
        /\ IF args = <<>>
           THEN Fail("MissingField") /\ UNCHANGED active_mat_index
           ELSE IF args[1] \in DOMAIN material_indices_by_name
           THEN /\ active_mat_index' = Some(material_indices_by_name[args[1]])
                /\ UNCHANGED <<pc, err>>
           ELSE Fail("UnknownMaterial") /\ UNCHANGED active_mat_index
        /\ UNCHANGED <<debug_assertions, positions, normals, tex_coords, faces,
                       materials, material_indices_by_name, material_names,
                       reindexVars, mesh, gl>>

\* Some("mtllib")
ReadMtllib ==
    \E args \in MtllibArgs :
        /\ MatchArm("mtllib") = "mtllib"
        /\ Read("mtllib", args)
        /\ LET file == NextWord(args, 1)
               name == IF IsSome(NextWord(args, 2)) THEN Unwrap(NextWord(args, 2))
                       ELSE MaterialName(Len(materials))
           IN  /\ material_indices_by_name' =
                      Insert(material_indices_by_name, name, Len(materials))
               /\ IF ~IsSome(file)
                  THEN /\ Fail("MissingField")
                       /\ UNCHANGED <<materials, material_names, gl>>
                  ELSE LET r == read_material(Unwrap(file), gl)
                       IN  /\ gl' = r.gl
                           /\ IF r.err = NoError
                              THEN /\ materials' = Append(materials, r.val)
                                   /\ material_names' = Append(material_names, name)
                                   /\ UNCHANGED <<pc, err>>
                              ELSE /\ Fail(r.err)
                                   /\ UNCHANGED <<materials, material_names>>
        /\ UNCHANGED <<debug_assertions, positions, normals, tex_coords, faces,
                       active_mat_index, reindexVars, mesh>>

\* Some(token) => panic!("Invalid obj token {}", token)
ReadInvalid ==
    \E token \in InvalidTokens :
        /\ MatchArm(token) = "invalid"
        /\ Read(token, <<>>)
        /\ Fail("UnknownToken")
        /\ UNCHANGED <<debug_assertions, positions, normals, tex_coords, faces,
                       materials, material_indices_by_name, material_names,
                       active_mat_index, reindexVars, mesh, gl>>

\* reader.lines() is exhausted: return reindex_faces(...)
EndOfFile ==
    /\ pc = "parse"
    /\ pc' = "reindex"
    /\ fi' = 1
    /\ UNCHANGED <<err, debug_assertions, parseVars, ci, face_normal,
                   final_index_by_face_index, final_vertices, final_indices,
                   mesh, gl>>

(***************************************************************************)
(* Mesh::render of the Mesh that load returned.                            *)
(***************************************************************************)
\* for material in self.materials.iter(): glBindTexture of each diffuse
\* texture, in order
RECURSIVE BindTextures(_, _, _)
BindTextures(mats, k, g) ==
    IF k > Len(mats) THEN g
    ELSE IF IsSome(mats[k].diffuse_texture)
    THEN BindTextures(mats, k + 1,
                      [g EXCEPT !.bound_texture_2d = Unwrap(mats[k].diffuse_texture)])
    ELSE BindTextures(mats, k + 1, g)

\* glBindVertexArray(self.vao), glDrawElements, glBindVertexArray(0)
Draw(g, vao) == [[g EXCEPT !.bound_vertex_array = vao] EXCEPT !.bound_vertex_array = 0]

\* Mesh::render
Render ==
    /\ pc = "done"
    /\ IF debug_assertions /\ Len(mesh.materials) > 1
       THEN Fail("AssertionFailed") /\ UNCHANGED gl
       ELSE /\ gl' = Draw(BindTextures(mesh.materials, 1, gl), mesh.vao)
            /\ UNCHANGED <<pc, err>>
    /\ UNCHANGED <<debug_assertions, parseVars, reindexVars, mesh>>

(***************************************************************************)
(* reindex_faces on its own: every list of at most MaxFaces triangles over *)
(* ReindexKeys, on three positions, one texture coordinate and one normal. *)
(***************************************************************************)
ReindexPositions == <<<<0, 0, 0>>, <<1, 0, 0>>, <<0, 1, 0>>>>
ReindexNormals == <<<<1, 0, 0>>>>
ReindexTexCoords == <<<<1, 1>>>>
ReindexKeys == {FaceIndex(1, None, None), FaceIndex(2, None, None),
                FaceIndex(3, None, Some(1)), FaceIndex(3, Some(1), None)}
ReindexFaces == {[indices |-> <<a, b, c>>, mat_index |-> None] :
                    a \in ReindexKeys, b \in ReindexKeys, c \in ReindexKeys}

SeqsUpTo(S, n) == UNION {[1..k -> S] : k \in 0..n}

ReindexStart ==
    /\ pc = "reindex"
    /\ err = NoError
    /\ lineno = 0
    /\ line = NoLine
    /\ materials = <<>>
    /\ material_indices_by_name = <<>>
    /\ material_names = <<>>
    /\ active_mat_index = None
    /\ fi = 1
    /\ ci = 0
    /\ face_normal = <<0, 0, 0>>
    /\ final_index_by_face_index = <<>>
    /\ final_vertices = <<>>
    /\ final_indices = <<>>
    /\ mesh = NoMesh
    /\ gl = NoGl

InitReindex ==
    /\ debug_assertions = FALSE
    /\ positions = ReindexPositions
    /\ normals = ReindexNormals
    /\ tex_coords = ReindexTexCoords
    /\ faces \in SeqsUpTo(ReindexFaces, MaxFaces)
    /\ ReindexStart

NextReindex ==
    \/ FaceBegin
    \/ CornerSeen
    \/ CornerNew
    \/ MeshNew
    \/ MeshNewEmpty

SpecReindex == InitReindex /\ [][NextReindex]_vars

(***************************************************************************)
(* load of a model file of at most MaxLines lines, then render.            *)
(***************************************************************************)
Init ==
    /\ debug_assertions \in BOOLEAN
    /\ pc = "parse"
    /\ err = NoError
    /\ lineno = 0
    /\ line = NoLine
    /\ positions = <<>>
    /\ normals = <<>>
    /\ tex_coords = <<>>
    /\ faces = <<>>
    /\ materials = <<>>
    /\ material_indices_by_name = <<>>
    /\ material_names = <<>>
    /\ active_mat_index = None
    /\ fi = 0
    /\ ci = 0
    /\ face_normal = <<0, 0, 0>>
    /\ final_index_by_face_index = <<>>
    /\ final_vertices = <<>>
    /\ final_indices = <<>>
    /\ mesh = NoMesh
    /\ gl = NoGl

Next ==
    \/ ReadV
    \/ ReadVt
    \/ ReadVn
    \/ ReadF
    \/ ReadIgnored
    \/ ReadUsemtl
    \/ ReadMtllib
    \/ ReadInvalid
    \/ EndOfFile
    \/ FaceBegin
    \/ FaceBeginOutOfBounds
    \/ CornerSeen
    \/ CornerNew
    \/ CornerOutOfBounds
    \/ MeshNew
    \/ MeshNewEmpty
    \/ Render

Spec == Init /\ [][Next]_vars

(***************************************************************************)
(* The corners of the faces, in file order.                                *)
(***************************************************************************)
FaceOfCorner(j) == faces[((j - 1) \div 3) + 1]
CornerAt(j) == FaceOfCorner(j).indices[((j - 1) % 3) + 1]
\* The corners the reindexer has been through.
Processed == 1..Len(final_indices)
\* The corner where the key of corner j occurs first.
FirstOccurrence(j) ==
    CHOOSE k \in 1..j :
        CornerAt(k) = CornerAt(j) /\ \A m \in 1..(k - 1) : CornerAt(m) # CornerAt(j)
VertexOfCorner(j) == final_vertices[final_indices[j] + 1]

(***************************************************************************)
(* C1.  When reindex_faces has completed, the map from the distinct        *)
(* FaceIndex keys of the faces to final indices is a bijection onto the    *)
(* positions 0..len-1 of the vertex array: two corners have the same final *)
(* index exactly when their keys (position, optional texcoord, optional    *)
(* normal) are equal, the map holds exactly the keys seen, each with the   *)
(* index pushed for it, and every emitted vertex is referenced by an entry *)
(* of the index array.                                                     *)
(***************************************************************************)
C1_KeyIndexBijection ==
    pc = "done" =>
        /\ \A j \in Processed : final_indices[j] \in 0..(Len(final_vertices) - 1)
        /\ \A j, k \in Processed :
               (CornerAt(j) = CornerAt(k)) <=> (final_indices[j] = final_indices[k])
        /\ \A v \in 0..(Len(final_vertices) - 1) :
               \E j \in Processed : final_indices[j] = v
        /\ DOMAIN final_index_by_face_index =
               {<<CornerAt(j).p_index, CornerAt(j).tx_index, CornerAt(j).n_index>> :
                   j \in Processed}
        /\ \A j \in Processed :
               final_index_by_face_index[<<CornerAt(j).p_index, CornerAt(j).tx_index,
                                           CornerAt(j).n_index>>] = final_indices[j]

\* A mesh of two faces that share a key and hold two keys of one position.
C1_Witness ==
    /\ pc = "done"
    /\ Len(faces) = 2
    /\ \E j \in 1..3, k \in 4..6 : CornerAt(j) = CornerAt(k)
    /\ \E j, k \in Processed :
           /\ CornerAt(j) # CornerAt(k)
           /\ CornerAt(j).p_index = CornerAt(k).p_index

(***************************************************************************)
(* C2.  A mesh that load returns has exactly 3 x faceCount indices and at  *)
(* most 3 x faceCount vertices, at least 1 when there is a face.           *)
(***************************************************************************)
C2_ArrayLengths ==
    pc = "done" =>
        /\ Len(mesh.indices) = 3 * Len(faces)
        /\ Len(mesh.vertices) <= 3 * Len(faces)
        /\ faces # <<>> => Len(mesh.vertices) >= 1

\* A mesh of two faces with fewer than six vertices.
C2_Witness ==
    /\ pc = "done"
    /\ Len(faces) = 2
    /\ Len(mesh.vertices) < 6

(***************************************************************************)
(* C3.  The vertices of the mesh are in first-encounter order: the index   *)
(* pushed for a corner is the number of distinct keys met before the first *)
(* occurrence of its key, and the vertex at that index is the one resolved *)
(* from that key.  The output is thereby a function of the face list.      *)
(***************************************************************************)
C3_FirstEncounterOrder ==
    pc = "done" =>
        \A j \in Processed :
            /\ final_indices[j] =
                   Cardinality({CornerAt(k) : k \in 1..(FirstOccurrence(j) - 1)})
            /\ VertexOfCorner(j).position = positions[CornerAt(j).p_index]
            /\ VertexOfCorner(j).tex_coords =
                   IF CornerAt(j).tx_index = None THEN <<0, 0>>
                   ELSE tex_coords[CornerAt(j).tx_index[1]]
            /\ CornerAt(j).n_index # None =>
                   VertexOfCorner(j).normal = normals[CornerAt(j).n_index[1]]

\* A mesh of three or more vertices in which a key comes back.
C3_Witness ==
    /\ pc = "done"
    /\ Len(final_vertices) >= 3
    /\ \E j \in Processed : FirstOccurrence(j) < j

\* normalize(cross(P1 - P0, P2 - P0)) of a face whose positions lie in the
\* plane z = 0: (0, 0, 1) counter-clockwise, (0, 0, -1) clockwise, NaN when
\* the face has no area.
FlatNormal(face) ==
    LET p0 == positions[face.indices[1].p_index]
        p1 == positions[face.indices[2].p_index]
        p2 == positions[face.indices[3].p_index]
        k == (p1[1] - p0[1]) * (p2[2] - p0[2]) - (p1[2] - p0[2]) * (p2[1] - p0[1])
    IN  IF k = 0 THEN <<NaN, NaN, NaN>>
        ELSE IF k > 0 THEN <<0, 0, 1>>
        ELSE <<0, 0, -1>>

(***************************************************************************)
(* C4.  In the mesh, every corner whose key has no normal index references *)
(* a vertex whose normal is the flat normal of the face of that corner,    *)
(* also when the key is shared by faces with different flat normals.       *)
(***************************************************************************)
C4_FlatNormalOfOwningFace ==
    pc = "done" =>
        \A j \in Processed :
            CornerAt(j).n_index = None =>
                VertexOfCorner(j).normal = FlatNormal(FaceOfCorner(j))

(***************************************************************************)
(* C4, amended.  In the mesh, every corner whose key has no normal index   *)
(* references a vertex whose normal is the flat normal of the first face,  *)
(* in file order, that uses that key.                                      *)
(***************************************************************************)
C4_FlatNormalOfFirstFace ==
    pc = "done" =>
        \A j \in Processed :
            CornerAt(j).n_index = None =>
                VertexOfCorner(j).normal = FlatNormal(FaceOfCorner(FirstOccurrence(j)))

\* A key without normal index shared by two faces of opposite flat normals.
C4_Witness ==
    /\ pc = "done"
    /\ Len(faces) = 2
    /\ FlatNormal(faces[1]) = <<0, 0, 1>>
    /\ FlatNormal(faces[2]) = <<0, 0, -1>>
    /\ \E j \in 1..3, k \in 4..6 :
           CornerAt(j) = CornerAt(k) /\ CornerAt(j).n_index = None

(***************************************************************************)
(* C5.  A model file with an unrecognized record token fails with          *)
(* UnknownToken before any GPU resource (texture, vertex array, buffer)    *)
(* has been created, wherever the token is.                                *)
(***************************************************************************)
C5_UnknownTokenBeforeAnyGpuResource ==
    line.token \in InvalidTokens =>
        /\ pc = "failed"
        /\ err = "UnknownToken"
        /\ gl.textures = 0
        /\ gl.vertex_arrays = 0
        /\ gl.buffers = 0

(***************************************************************************)
(* C5, amended.  A model file with an unrecognized record token fails with *)
(* UnknownToken before any vertex array or buffer has been created; a      *)
(* texture has been created by then only if an earlier mtllib line read a  *)
(* material file with a map_Kd directive.                                  *)
(***************************************************************************)
C5_UnknownTokenBeforeMeshResources ==
    line.token \in InvalidTokens =>
        /\ pc = "failed"
        /\ err = "UnknownToken"
        /\ gl.vertex_arrays = 0
        /\ gl.buffers = 0
        /\ gl.textures > 0 =>
               \E i \in 1..Len(materials) : materials[i].diffuse_texture # None

\* An unrecognized token after an mtllib line that created a texture.
C5_Witness ==
    /\ line.token \in InvalidTokens
    /\ err = "UnknownToken"
    /\ gl.textures > 0

(***************************************************************************)
(* C6.  Every operation that mutates the GPU binding state leaves it       *)
(* neutral when it returns: the bound vertex array is 0 and no texture is  *)
(* bound to the 2D texture target.                                         *)
(***************************************************************************)
C6_NeutralBindings ==
    pc # "failed" =>
        /\ gl.bound_vertex_array = 0
        /\ gl.bound_texture_2d = 0

\* A face-vertex word p[/t][/n] with a field that is not a number: p, a t
\* that is not empty, or an n that is not empty.
MalformedFaceWord(w) ==
    LET f == Split(w, "/")
    IN  \/ ~AllDigits(f[1])
        \/ Len(f) >= 2 /\ f[2] # <<>> /\ ~AllDigits(f[2])
        \/ Len(f) >= 3 /\ f[3] # <<>> /\ ~AllDigits(f[3])

(***************************************************************************)
(* C7.  A numeric field that does not parse makes the load fail with       *)
(* MalformedNumber: a float of a v, vt or vn line, and the position, the   *)
(* non-empty texture or the normal field of a face-vertex word.            *)
(***************************************************************************)
C7_MalformedNumberFails ==
    /\ (/\ line.token \in {"v", "vn"}
        /\ Len(line.args) = 3
        /\ \E k \in 1..3 : ParseF32(line.args[k]) = None)
           => pc = "failed" /\ err = "MalformedNumber"
    /\ (/\ line.token = "vt"
        /\ Len(line.args) = 2
        /\ \E k \in 1..2 : ParseF32(line.args[k]) = None)
           => pc = "failed" /\ err = "MalformedNumber"
    /\ (/\ line.token = "f"
        /\ Len(line.args) = 3
        /\ \E k \in 1..3 : MalformedFaceWord(line.args[k]))
           => pc = "failed" /\ err = "MalformedNumber"

(***************************************************************************)
(* C8.  An f line with more or fewer than 3 face-vertex words always fails *)
(* with UnsupportedTopology.                                               *)
(***************************************************************************)
C8_NonTriangleFails ==
    (line.token = "f" /\ Len(line.args) # 3) =>
        pc = "failed" /\ err = "UnsupportedTopology"

\* The positions in materials of the materials inserted under a name.
Registered(name) == {i \in 1..Len(material_names) : material_names[i] = name}
\* The face that an f line pushed carries the active material.
FaceTagged ==
    (line.token = "f" /\ faces # <<>> /\ err \notin {"UnsupportedTopology", "MalformedNumber"})
        => faces[Len(faces)].mat_index = active_mat_index
\* A usemtl of a name that no mtllib line inserted panics.
UnknownMaterialFails ==
    (line.token = "usemtl" /\ line.args # <<>> /\ Registered(line.args[1]) = {})
        => pc = "failed" /\ err = "UnknownMaterial"

(***************************************************************************)
(* C9.  A usemtl that names a material registered by an earlier mtllib     *)
(* line sets the active material to that material's position in the        *)
(* materials list, a face is tagged with the active material, and a usemtl *)
(* of a name not registered fails with UnknownMaterial.                    *)
(***************************************************************************)
C9_UsemtlSelectsRegistered ==
    /\ (line.token = "usemtl" /\ line.args # <<>>) =>
           \A i \in Registered(line.args[1]) :
               err # "UnknownMaterial" /\ active_mat_index = Some(i - 1)
    /\ FaceTagged
    /\ UnknownMaterialFails

(***************************************************************************)
(* C9, amended.  A usemtl that names a material registered by an earlier   *)
(* mtllib line sets the active material to the position of the material    *)
(* that the latest mtllib line registered under that name; a face is       *)
(* tagged with the active material, and a usemtl of a name not registered  *)
(* fails with UnknownMaterial.                                             *)
(***************************************************************************)
C9_UsemtlSelectsLatestRegistered ==
    /\ (line.token = "usemtl" /\ line.args # <<>> /\ Registered(line.args[1]) # {}) =>
           LET latest == CHOOSE i \in Registered(line.args[1]) :
                             \A k \in Registered(line.args[1]) : k <= i
           IN  err # "UnknownMaterial" /\ active_mat_index = Some(latest - 1)
    /\ FaceTagged
    /\ UnknownMaterialFails

\* A usemtl of a name that two mtllib lines registered.
C9_Witness ==
    /\ line.token = "usemtl"
    /\ pc = "parse"
    /\ line.args # <<>>
    /\ Cardinality(Registered(line.args[1])) = 2
    /\ active_mat_index = Some(1)

(***************************************************************************)
(* C10.  A Mesh that load returns has a vertex and an index: a model file  *)
(* without faces yields no Mesh, Mesh::new panics on its empty arrays.     *)
(***************************************************************************)
C10_MeshNotEmpty ==
    /\ pc = "done" => mesh.vertices # <<>> /\ mesh.indices # <<>>
    /\ faces = <<>> => mesh = NoMesh /\ pc # "done"

\* A file without faces that was read to its end: Mesh::new panicked.
C10_Witness ==
    /\ faces = <<>>
    /\ lineno > 0
    /\ pc = "failed"
    /\ err = "ArrayIndexError"
    /\ gl.vertex_arrays = 1

====
